---- MODULE Spec2Model ----
\* A model of the Stream Deck plugin action TodoistMonitor
\* (src/src/actions/todoist-monitor.ts): the per-instance polling timers, the
\* settings-refresh requests, the fetch/render pipeline (updateButton) and the
\* count-to-colour policy (getColor).
\*
\* Nullable values (number | null, string | null, no image yet) are encoded as
\* sequences of length at most one: << >> is null, <<v>> is the value v.
EXTENDS Integers, Sequences, FiniteSets, TLC

VARIABLES
    settings,    \* host: the stored QuerySettings of each instance
    lastEvent,   \* history: most recent lifecycle event of each instance
    intervals,   \* TodoistMonitor.intervals: Map<instance id, timer handle>
    timers,      \* node runtime: live (uncancelled) interval timers, handle -> instance of the callback
    pending,     \* host: getSettings requests issued and not yet answered, per instance
    runs,        \* updateButton invocations in flight, in the order they were started
    image,       \* host: the image last set for each instance
    shown,       \* history: the count and the settings the image of each instance was rendered from
    lastOp,      \* history: the handler or step that ran last
    cSettings,   \* getColor check: the settings argument
    cCount,      \* getColor check: the taskCount argument
    cColor       \* getColor check: the returned colour, << >> before the call

vars == <<settings, lastEvent, intervals, timers, pending, runs, image, shown, lastOp,
          cSettings, cCount, cColor>>

pollerVars == <<settings, lastEvent, intervals, timers, pending, runs, image, shown, lastOp>>
colorVars == <<cSettings, cCount, cColor>>

----------------------------------------------------------------------------
\* Bounds

MaxTimers == 3      \* timer handles the runtime can hand out
MaxInFlight == 1    \* refreshes under way: getSettings requests awaiting the host's answer and updateButton runs
MaxOverlap == 2     \* refreshes under way when one instance is followed on its own
MaxTasks == 1       \* tasks the remote service returns to a run
MaxCount == 15      \* taskCount arguments tried on getColor

Ids == {"a", "b"}
Handles == 1..MaxTimers

----------------------------------------------------------------------------
\* QuerySettings

Null == << >>

QuerySettings(name, filter, g, gc, b, bc) ==
    [item_name |-> name, item_filter |-> filter,
     g_cutoff_1 |-> g[1], g_cutoff_2 |-> g[2], g_cutoff_3 |-> g[3],
     g_color_1 |-> gc[1], g_color_2 |-> gc[2], g_color_3 |-> gc[3], g_color_4 |-> gc[4],
     b_cutoff_1 |-> b[1], b_cutoff_2 |-> b[2], b_cutoff_3 |-> b[3],
     b_color_1 |-> bc[1], b_color_2 |-> bc[2], b_color_3 |-> bc[3], b_color_4 |-> bc[4]]

NoCutoffs == <<Null, Null, Null>>
NoColors == <<Null, Null, Null, Null>>

\* The settings the instances of the poller are configured with: one without
\* a filter on ladder G, one with a filter on ladder B.
Configs ==
    { QuerySettings(<<"I">>, "", <<<<1>>, Null, Null>>, NoColors, NoCutoffs, NoColors),
      QuerySettings(<<"T", "d">>, "today", NoCutoffs, NoColors, <<<<1>>, Null, Null>>, NoColors) }

\* The settings getColor is tried on.
Cutoffs1 == {Null, <<0>>, <<10>>}
Cutoffs2 == {Null, <<0>>, <<5>>}
Cutoffs3 == {Null, <<0>>, <<2>>}
GColors == { NoColors,
             <<<<"g1">>, <<"g2">>, <<"g3">>, <<"g4">>>>,
             <<<<"">>, <<"g2">>, Null, <<"">>>> }
BColors == { NoColors,
             <<<<"b1">>, <<"b2">>, <<"b3">>, <<"b4">>>>,
             <<Null, <<"">>, <<"b3">>, <<"">>>> }

ColorConfigs ==
    { QuerySettings(<<"I">>, "", <<g1, g2, g3>>, gc, <<b1, b2, b3>>, bc) :
        g1 \in Cutoffs1, g2 \in Cutoffs2, g3 \in Cutoffs3, gc \in GColors,
        b1 \in Cutoffs1, b2 \in Cutoffs2, b3 \in Cutoffs3, bc \in BColors }

----------------------------------------------------------------------------
\* JavaScript truthiness and || on the nullable values

\* if (x) for x: number | null
TruthyNum(x) == x # Null /\ x[1] # 0

\* if (x) for x: string
TruthyStr(x) == x # ""

\* x || dflt for x: string | null
OrDefault(x, dflt) == IF x # Null /\ x[1] # "" THEN x[1] ELSE dflt

----------------------------------------------------------------------------
\* Renderer

getColor_WhiteLost(taskCount, s) ==
    IF TruthyNum(s.g_cutoff_1) THEN
        IF taskCount >= s.g_cutoff_1[1] THEN OrDefault(s.g_color_1, "green")
        ELSE IF TruthyNum(s.g_cutoff_2) /\ taskCount >= s.g_cutoff_2[1] THEN OrDefault(s.g_color_2, "yellow")
        ELSE IF TruthyNum(s.g_cutoff_3) /\ taskCount >= s.g_cutoff_3[1] THEN OrDefault(s.g_color_3, "orange")
        ELSE OrDefault(s.g_color_4, "red")
    ELSE IF TruthyNum(s.b_cutoff_1) \/ TruthyNum(s.b_cutoff_2) THEN
        IF TruthyNum(s.b_cutoff_1) /\ taskCount >= s.b_cutoff_1[1] THEN OrDefault(s.b_color_1, "red")
        ELSE IF TruthyNum(s.b_cutoff_2) /\ taskCount >= s.b_cutoff_2[1] THEN OrDefault(s.b_color_2, "orange")
        ELSE IF TruthyNum(s.b_cutoff_3) /\ taskCount >= s.b_cutoff_3[1] THEN OrDefault(s.b_color_3, "yellow")
        ELSE OrDefault(s.b_color_4, "green")
    ELSE "white"

getColor(taskCount, s) ==
    IF TruthyNum(s.g_cutoff_1) THEN
        IF taskCount >= s.g_cutoff_1[1] THEN OrDefault(s.g_color_1, "green")
        ELSE IF TruthyNum(s.g_cutoff_2) /\ taskCount >= s.g_cutoff_2[1] THEN OrDefault(s.g_color_2, "yellow")
        ELSE IF TruthyNum(s.g_cutoff_3) /\ taskCount >= s.g_cutoff_3[1] THEN OrDefault(s.g_color_3, "orange")
        ELSE OrDefault(s.g_color_4, "red")
    ELSE IF TruthyNum(s.b_cutoff_1) THEN
        IF taskCount >= s.b_cutoff_1[1] THEN OrDefault(s.b_color_1, "red")
        ELSE IF TruthyNum(s.b_cutoff_2) /\ taskCount >= s.b_cutoff_2[1] THEN OrDefault(s.b_color_2, "orange")
        ELSE IF TruthyNum(s.b_cutoff_3) /\ taskCount >= s.b_cutoff_3[1] THEN OrDefault(s.b_color_3, "yellow")
        ELSE OrDefault(s.b_color_4, "green")
    ELSE "white"

\* Number of characters of `${n}` for n >= 0
RECURSIVE Digits(_)
Digits(n) == IF n < 10 THEN 1 ELSE 1 + Digits(n \div 10)

\* Math.min(maxWidth / (text.length * 0.45), maxFontSize), in thousandths of a
\* pixel, rounded down; a zero length divides to Infinity and the cap applies.
getFontSize(textLength, maxWidth, maxFontSize) ==
    IF textLength = 0 THEN maxFontSize * 1000
    ELSE LET q == (maxWidth * 100000) \div (textLength * 45)
         IN  IF q < maxFontSize * 1000 THEN q ELSE maxFontSize * 1000

\* The svg text, as the values interpolated into the template.
getButtonSvg(taskCount, s) ==
    [fill |-> getColor(taskCount, s),
     mainText |-> taskCount,
     mainFont |-> getFontSize(Digits(taskCount) + 6, 140, 40),
     name |-> s.item_name,
     nameFont |-> getFontSize(Len(s.item_name), 140, 28)]

----------------------------------------------------------------------------
\* Poller

has(id) == id \in DOMAIN intervals

FreeHandles == Handles \ DOMAIN timers

\* The handle of a new timer: a handle no live timer has.
NewHandle == CHOOSE h \in FreeHandles : \A k \in FreeHandles : h <= k

\* action.getSettings(): one more request for the host to answer
getSettings(id) == pending' = [pending EXCEPT ![id] = @ + 1]

RECURSIVE Sum(_, _)
Sum(f, S) == IF S = {} THEN 0
             ELSE LET x == CHOOSE y \in S : TRUE IN f[x] + Sum(f, S \ {x})

TotalPending == Sum(pending, Ids)

\* Room for one more refresh within the bound
Room(bound) == TotalPending + Len(runs) < bound

startTimerIfNeeded_NoCheck(id) ==
    /\ intervals' = [j \in DOMAIN intervals \cup {id} |->
                        IF j = id THEN NewHandle ELSE intervals[j]]
    /\ timers' = [h \in DOMAIN timers \cup {NewHandle} |->
                        IF h = NewHandle THEN id ELSE timers[h]]

startTimerIfNeeded(id) ==
    IF ~has(id)
    THEN /\ intervals' = [j \in DOMAIN intervals \cup {id} |->
                            IF j = id THEN NewHandle ELSE intervals[j]]
         /\ timers' = [h \in DOMAIN timers \cup {NewHandle} |->
                            IF h = NewHandle THEN id ELSE timers[h]]
    ELSE UNCHANGED <<intervals, timers>>

onWillAppear_Always(id, s) ==
    /\ startTimerIfNeeded(id)
    /\ getSettings(id)

onWillAppear(id, s) ==
    /\ startTimerIfNeeded(id)
    /\ IF TruthyStr(s.item_filter) THEN getSettings(id) ELSE UNCHANGED pending

\* clearInterval(handle)
clearInterval(handle) == [h \in DOMAIN timers \ {handle} |-> timers[h]]

onWillDisappear_NoClear(id) ==
    IF has(id)
    THEN /\ timers' = timers
         /\ intervals' = [j \in DOMAIN intervals \ {id} |-> intervals[j]]
    ELSE UNCHANGED <<intervals, timers>>

onWillDisappear_NoDelete(id) ==
    IF has(id)
    THEN /\ timers' = clearInterval(intervals[id])
         /\ intervals' = intervals
    ELSE UNCHANGED <<intervals, timers>>

onWillDisappear_All(id) ==
    IF has(id)
    THEN /\ timers' = << >>
         /\ intervals' = << >>
    ELSE UNCHANGED <<intervals, timers>>

onWillDisappear(id) ==
    IF has(id)
    THEN /\ timers' = clearInterval(intervals[id])
         /\ intervals' = [j \in DOMAIN intervals \ {id} |-> intervals[j]]
    ELSE UNCHANGED <<intervals, timers>>

\* What the runtime does with a timer once its callback has run: a timer made
\* by setInterval stays scheduled.
setInterval_OneShot(handle) == timers' = clearInterval(handle)

setInterval(handle) == timers' = timers

timerCallback_NoRequest(id) == pending' = pending

\* The callback of the timer of startTimerIfNeeded
timerCallback(id) == getSettings(id)

onKeyDown_Twice(id) == pending' = [pending EXCEPT ![id] = @ + 2]

onKeyDown(id) == getSettings(id)

\* No response: the step was not the end of a fetch.
NoResp == [transport |-> FALSE, ok |-> FALSE, json |-> FALSE, tasks |-> 0]

\* The record of a step: the handler, its instance, whether intervals had the
\* instance when the step began, whether the handler threw, and the response
\* of the remote call when the step ends one.
Op(op, id) == [op |-> op, id |-> id, had |-> has(id), threw |-> FALSE, resp |-> NoResp]

----------------------------------------------------------------------------
\* Pipeline

\* The outcomes of the remote call of getTasks: the transport fails, or a
\* response arrives with ok false, or with ok true and a body that is not
\* JSON, or with ok true and a list of n tasks.
Responses ==
    {[transport |-> FALSE, ok |-> FALSE, json |-> FALSE, tasks |-> 0],
     [transport |-> TRUE, ok |-> FALSE, json |-> TRUE, tasks |-> 0],
     [transport |-> TRUE, ok |-> TRUE, json |-> FALSE, tasks |-> 0]}
    \cup {[transport |-> TRUE, ok |-> TRUE, json |-> TRUE, tasks |-> n] : n \in 0..MaxTasks}

getTasks_OkIgnored(resp) ==
    IF ~resp.transport THEN [throws |-> TRUE, length |-> 0]
    ELSE IF ~resp.json THEN [throws |-> TRUE, length |-> 0]
    ELSE [throws |-> FALSE, length |-> resp.tasks]

\* getTasks: rejects, or resolves with the list of tasks (its length is kept)
getTasks(resp) ==
    IF ~resp.transport THEN [throws |-> TRUE, length |-> 0]
    ELSE IF ~resp.ok THEN [throws |-> TRUE, length |-> 0]
    ELSE IF ~resp.json THEN [throws |-> TRUE, length |-> 0]
    ELSE [throws |-> FALSE, length |-> resp.tasks]

RemoveAt(s, k) == [j \in 1..(Len(s) - 1) |-> IF j < k THEN s[j] ELSE s[j + 1]]

\* History: run k has set its image, so the runs of its instance that were
\* started before it and are still under way are stale.
MarkStale(s, k) ==
    [j \in 1..Len(s) |-> IF j < k /\ s[j].id = s[k].id THEN [s[j] EXCEPT !.stale = TRUE] ELSE s[j]]

updateButton_SkipEmpty(s, id) ==
    runs' = IF TruthyStr(s.item_filter)
            THEN Append(runs, [id |-> id, settings |-> s, stale |-> FALSE])
            ELSE runs

\* updateButton up to its awaits: the run holds its arguments while
\* getGlobalSettings and then the remote call of getTasks are under way;
\* nothing of the program is read or written between the two.
updateButton(s, id) == runs' = Append(runs, [id |-> id, settings |-> s, stale |-> FALSE])

onDidReceiveSettings_Shown(id, s) ==
    updateButton(IF shown[id] = Null THEN s ELSE shown[id][1].settings, id)

onDidReceiveSettings(id, s) == updateButton(s, id)

----------------------------------------------------------------------------
\* The host's events and the steps of the runtime

\* willAppear, with the settings the host stores for the instance
Appear(i, bound) ==
    /\ FreeHandles # {}
    /\ TruthyStr(settings[i].item_filter) => Room(bound)
    /\ onWillAppear(i, settings[i])
    /\ lastEvent' = [lastEvent EXCEPT ![i] = "appear"]
    /\ lastOp' = Op("appear", i)
    /\ UNCHANGED <<settings, runs, image, shown, colorVars>>

\* willDisappear
Disappear(i) ==
    /\ onWillDisappear(i)
    /\ lastEvent' = [lastEvent EXCEPT ![i] = "disappear"]
    /\ lastOp' = Op("disappear", i)
    /\ UNCHANGED <<settings, pending, runs, image, shown, colorVars>>

\* keyDown on a visible instance
KeyDown(i, bound) ==
    /\ lastEvent[i] = "appear"
    /\ Room(bound)
    /\ onKeyDown(i)
    /\ lastOp' = Op("keyDown", i)
    /\ UNCHANGED <<settings, lastEvent, intervals, timers, runs, image, shown, colorVars>>

\* A live timer fires: the runtime runs its callback.
Tick(h, bound) ==
    /\ h \in DOMAIN timers
    /\ Room(bound)
    /\ timerCallback(timers[h])
    /\ setInterval(h)
    /\ lastOp' = Op("tick", timers[h])
    /\ UNCHANGED <<settings, lastEvent, intervals, runs, image, shown, colorVars>>

\* The host answers a getSettings request: didReceiveSettings with the
\* stored settings.
Deliver(i) ==
    /\ pending[i] > 0
    /\ pending' = [pending EXCEPT ![i] = @ - 1]
    /\ onDidReceiveSettings(i, settings[i])
    /\ lastOp' = Op("deliver", i)
    /\ UNCHANGED <<settings, lastEvent, intervals, timers, image, shown, colorVars>>

\* A getSettings request fails: the host never answers it.
Drop(i) ==
    /\ pending[i] > 0
    /\ pending' = [pending EXCEPT ![i] = @ - 1]
    /\ lastOp' = Op("drop", i)
    /\ UNCHANGED <<settings, lastEvent, intervals, timers, runs, image, shown, colorVars>>

\* The user edits the settings: the host stores them and sends didReceiveSettings.
SettingsChanged(i, s, bound) ==
    /\ s # settings[i]
    /\ Room(bound)
    /\ settings' = [settings EXCEPT ![i] = s]
    /\ onDidReceiveSettings(i, s)
    /\ lastOp' = Op("settingsChanged", i)
    /\ UNCHANGED <<lastEvent, intervals, timers, pending, image, shown, colorVars>>

FetchResolved_Serial(k, resp) ==
    /\ k = 1
    /\ k \in 1..Len(runs)
    /\ LET tasks == getTasks(resp)
           id == runs[k].id
       IN  IF tasks.throws
           THEN /\ image' = image
                /\ shown' = shown
                /\ runs' = RemoveAt(runs, k)
                /\ lastOp' = [Op("rejected", id) EXCEPT !.resp = resp]
           ELSE /\ image' = [image EXCEPT ![id] = <<getButtonSvg(tasks.length, runs[k].settings)>>]
                /\ shown' = [shown EXCEPT ![id] = <<[count |-> tasks.length, settings |-> runs[k].settings]>>]
                /\ runs' = RemoveAt(MarkStale(runs, k), k)
                /\ lastOp' = [Op("setImage", id) EXCEPT !.resp = resp]
    /\ UNCHANGED <<settings, lastEvent, intervals, timers, pending, colorVars>>

FetchResolved_Retry(k, resp) ==
    /\ k \in 1..Len(runs)
    /\ LET tasks == getTasks(resp)
           id == runs[k].id
       IN  IF tasks.throws
           THEN /\ image' = image
                /\ shown' = shown
                /\ runs' = runs
                /\ lastOp' = [Op("rejected", id) EXCEPT !.resp = resp]
           ELSE /\ image' = [image EXCEPT ![id] = <<getButtonSvg(tasks.length, runs[k].settings)>>]
                /\ shown' = [shown EXCEPT ![id] = <<[count |-> tasks.length, settings |-> runs[k].settings]>>]
                /\ runs' = RemoveAt(MarkStale(runs, k), k)
                /\ lastOp' = [Op("setImage", id) EXCEPT !.resp = resp]
    /\ UNCHANGED <<settings, lastEvent, intervals, timers, pending, colorVars>>

FetchResolved_Stateful(k, resp) ==
    /\ k \in 1..Len(runs)
    /\ LET tasks == getTasks(resp)
           id == runs[k].id
       IN  IF tasks.throws
           THEN /\ image' = image
                /\ shown' = shown
                /\ runs' = RemoveAt(runs, k)
                /\ lastOp' = [Op("rejected", id) EXCEPT !.resp = resp]
           ELSE /\ image' = [image EXCEPT ![id] = <<[getButtonSvg(tasks.length, runs[k].settings)
                                                        EXCEPT !.mainText = @ + (IF image[id] = Null THEN 0 ELSE 1)]>>]
                /\ shown' = [shown EXCEPT ![id] = <<[count |-> tasks.length, settings |-> runs[k].settings]>>]
                /\ runs' = RemoveAt(MarkStale(runs, k), k)
                /\ lastOp' = [Op("setImage", id) EXCEPT !.resp = resp]
    /\ UNCHANGED <<settings, lastEvent, intervals, timers, pending, colorVars>>

\* updateButton from its awaits on: getGlobalSettings has resolved and
\* await getTasks() settles with the outcome of the remote call; the run
\* rejects, or renders and calls setImage.
FetchResolved(k, resp) ==
    /\ k \in 1..Len(runs)
    /\ LET tasks == getTasks(resp)
           id == runs[k].id
       IN  IF tasks.throws
           THEN /\ image' = image
                /\ shown' = shown
                /\ runs' = RemoveAt(runs, k)
                /\ lastOp' = [Op("rejected", id) EXCEPT !.resp = resp]
           ELSE /\ image' = [image EXCEPT ![id] = <<getButtonSvg(tasks.length, runs[k].settings)>>]
                /\ shown' = [shown EXCEPT ![id] = <<[count |-> tasks.length, settings |-> runs[k].settings]>>]
                /\ runs' = RemoveAt(MarkStale(runs, k), k)
                /\ lastOp' = [Op("setImage", id) EXCEPT !.resp = resp]
    /\ UNCHANGED <<settings, lastEvent, intervals, timers, pending, colorVars>>

PollerInit ==
    /\ lastEvent = [i \in Ids |-> "none"]
    /\ intervals = << >>
    /\ timers = << >>
    /\ pending = [i \in Ids |-> 0]
    /\ runs = << >>
    /\ image = [i \in Ids |-> Null]
    /\ shown = [i \in Ids |-> Null]
    /\ lastOp = [op |-> "init", id |-> "a", had |-> FALSE, threw |-> FALSE, resp |-> NoResp]

Init ==
    /\ settings \in [Ids -> Configs]
    /\ PollerInit
    /\ cSettings = QuerySettings(<<"I">>, "", NoCutoffs, NoColors, NoCutoffs, NoColors)
    /\ cCount = 0
    /\ cColor = Null

\* The steps of the instances of I, with at most bound refreshes under way
NextOn(I, bound) ==
    \/ \E i \in I : Appear(i, bound)
    \/ \E i \in I : Disappear(i)
    \/ \E i \in I : KeyDown(i, bound)
    \/ \E h \in Handles : Tick(h, bound)
    \/ \E i \in I : Deliver(i)
    \/ \E i \in I : Drop(i)
    \/ \E i \in I, s \in Configs : SettingsChanged(i, s, bound)
    \/ \E k \in 1..bound, resp \in Responses : FetchResolved(k, resp)

Next == NextOn(Ids, MaxInFlight)

Spec == Init /\ [][Next]_vars

\* One instance, with the scheduling of the runtime: a live interval timer
\* fires again and again, the host answers the requests it does not drop, and
\* every await of a run settles.
LiveIds == {"a"}

LiveNext == NextOn(LiveIds, MaxInFlight)

Fairness ==
    /\ \A h \in Handles : SF_vars(Tick(h, MaxInFlight))
    /\ \A i \in LiveIds : WF_vars(Deliver(i))
    /\ \A k \in 1..MaxInFlight : WF_vars(\E resp \in Responses : FetchResolved(k, resp))

LiveSpec == Init /\ [][LiveNext]_vars /\ Fairness

\* One instance with refreshes that overlap
PipeNext == NextOn(LiveIds, MaxOverlap)

PipeSpec == Init /\ [][PipeNext]_vars

----------------------------------------------------------------------------
\* getColor on its own: the settings are drawn from ColorConfigs and the
\* function is applied to every count.

Render(c) ==
    /\ cCount' = c
    /\ cColor' = <<getColor(c, cSettings)>>
    /\ UNCHANGED <<cSettings, pollerVars>>

ColorInit ==
    /\ settings = [i \in Ids |-> QuerySettings(<<"I">>, "", NoCutoffs, NoColors, NoCutoffs, NoColors)]
    /\ PollerInit
    /\ cSettings \in ColorConfigs
    /\ cCount = 0
    /\ cColor = Null

ColorNext == \E c \in 0..MaxCount : Render(c)

ColorSpec == ColorInit /\ [][ColorNext]_vars

----------------------------------------------------------------------------
\* Properties of the poller

\* The live timers whose callback requests refreshes for instance i
TimersOf(i) == {h \in DOMAIN timers : timers[h] = i}

\* The step just taken was handler op of instance i.
Ran(op, i) == lastOp.op = op /\ lastOp.id = i

\* C1: whatever appear and disappear events arrive, an instance never has
\* more than one live timer, and an onWillAppear for an instance that already
\* has a registered timer creates no timer and leaves the handle in the map
\* as it was.
C1_AtMostOneTimer ==
    /\ [](\A i \in Ids : Cardinality(TimersOf(i)) <= 1)
    /\ [][\A i \in Ids :
            (lastOp'.op = "appear" /\ lastOp'.id = i /\ has(i))
                => (intervals' = intervals /\ timers' = timers)]_vars

\* An onWillAppear has just run for an instance that had its timer already.
C1_Witness ==
    /\ lastOp.op = "appear"
    /\ lastOp.had
    /\ Cardinality(TimersOf(lastOp.id)) = 1

\* C2: no timer leaks: the live timers are exactly the handles of the timer
\* map, each requesting refreshes for its key; an instance whose last
\* lifecycle event is appear has exactly one live timer, any other instance
\* (disappeared, or never appeared) has none.
C2_NoTimerLeak ==
    /\ DOMAIN timers = {intervals[i] : i \in DOMAIN intervals}
    /\ \A i \in DOMAIN intervals : timers[intervals[i]] = i
    /\ \A i \in Ids :
        IF lastEvent[i] = "appear"
        THEN has(i) /\ Cardinality(TimersOf(i)) = 1
        ELSE ~has(i) /\ TimersOf(i) = {}

\* Instance a has appeared and disappeared while b stays visible with the
\* second timer handed out.
C2_Witness ==
    /\ lastEvent["a"] = "disappear"
    /\ lastEvent["b"] = "appear"
    /\ DOMAIN timers = {2}
    /\ timers[2] = "b"

\* C3: onWillDisappear cancels and removes the timer of the instance when
\* there is one, so a timer only ever fires for an instance whose last
\* lifecycle event is appear; when the instance has no timer the handler
\* changes nothing, and it never throws.
C3_DisappearCancels ==
    /\ [](\A i \in Ids :
            /\ Ran("disappear", i) => (~has(i) /\ TimersOf(i) = {} /\ ~lastOp.threw)
            /\ Ran("tick", i) => lastEvent[i] = "appear")
    /\ [][\A i \in Ids :
            (lastOp'.op = "disappear" /\ lastOp'.id = i /\ ~has(i))
                => UNCHANGED <<intervals, timers, pending, runs, image, settings>>]_vars

\* An onWillDisappear has just cancelled and removed the timer its instance had.
C3_Witness ==
    /\ lastOp.op = "disappear"
    /\ lastOp.had
    /\ ~has(lastOp.id)
    /\ TimersOf(lastOp.id) = {}

\* C4: an onWillAppear whose settings have a non-empty item_filter issues
\* exactly one getSettings request for its instance and has the timer
\* registered; one whose item_filter is empty issues no request.
C4_ImmediateRefresh ==
    [][\A i \in Ids :
        (lastOp'.op = "appear" /\ lastOp'.id = i)
            => /\ pending' = [pending EXCEPT ![i] =
                                @ + (IF settings[i].item_filter # "" THEN 1 ELSE 0)]
               /\ i \in DOMAIN intervals'
               /\ i \in {timers'[h] : h \in DOMAIN timers'}]_vars

\* An onWillAppear with a filter has just issued the only request outstanding.
C4_Witness ==
    /\ lastOp.op = "appear"
    /\ ~lastOp.had
    /\ settings[lastOp.id].item_filter # ""
    /\ pending[lastOp.id] = 1
    /\ has(lastOp.id)

\* C5: a run whose remote fetch fails (transport failure or a response that
\* is not ok) rejects and does not call setImage: the step that ends the run
\* leaves every image as it was.
C5_FailedFetchKeepsIcon ==
    [][(lastOp'.op \in {"rejected", "setImage"}
            /\ (~lastOp'.resp.transport \/ ~lastOp'.resp.ok))
        => (lastOp'.op = "rejected" /\ image' = image /\ Len(runs') = Len(runs) - 1)]_vars

\* A run has just rejected on a response that is not ok while the instance
\* shows an image of an earlier run.
C5_Witness ==
    /\ lastOp.op = "rejected"
    /\ lastOp.resp.transport
    /\ ~lastOp.resp.ok
    /\ image[lastOp.id] # Null

----------------------------------------------------------------------------
\* Properties of getColor

\* A cutoff is set when it is a number, not null.
IsSet(x) == x # Null

\* A configured colour, or the default of its slot when none is configured.
ColorOr(x, dflt) == IF x = Null \/ x = <<"">> THEN dflt ELSE x[1]

\* The table of ladder G, first match wins.
LadderG(count, s) ==
    IF count >= s.g_cutoff_1[1] THEN ColorOr(s.g_color_1, "green")
    ELSE IF IsSet(s.g_cutoff_2) /\ count >= s.g_cutoff_2[1] THEN ColorOr(s.g_color_2, "yellow")
    ELSE IF IsSet(s.g_cutoff_3) /\ count >= s.g_cutoff_3[1] THEN ColorOr(s.g_color_3, "orange")
    ELSE ColorOr(s.g_color_4, "red")

\* The table of ladder B, first match wins.
LadderB(count, s) ==
    IF count >= s.b_cutoff_1[1] THEN ColorOr(s.b_color_1, "red")
    ELSE IF IsSet(s.b_cutoff_2) /\ count >= s.b_cutoff_2[1] THEN ColorOr(s.b_color_2, "orange")
    ELSE IF IsSet(s.b_cutoff_3) /\ count >= s.b_cutoff_3[1] THEN ColorOr(s.b_color_3, "yellow")
    ELSE ColorOr(s.b_color_4, "green")

Rendered == cColor # Null

\* C6: for every count and every settings whose g_cutoff_1 is set, getColor
\* returns the colour of the ladder-G table.
C6_LadderG ==
    (Rendered /\ IsSet(cSettings.g_cutoff_1))
        => cColor[1] = LadderG(cCount, cSettings)

\* C7: for every count and every settings whose g_cutoff_1 is not set and
\* whose b_cutoff_1 is set, getColor returns the colour of the ladder-B table.
C7_LadderB ==
    (Rendered /\ ~IsSet(cSettings.g_cutoff_1) /\ IsSet(cSettings.b_cutoff_1))
        => cColor[1] = LadderB(cCount, cSettings)

\* The settings with every field of ladder B cleared
WithoutB(s) ==
    [s EXCEPT !.b_cutoff_1 = Null, !.b_cutoff_2 = Null, !.b_cutoff_3 = Null,
              !.b_color_1 = Null, !.b_color_2 = Null, !.b_color_3 = Null, !.b_color_4 = Null]

\* C8: when g_cutoff_1 and b_cutoff_1 are both set, getColor returns one of
\* the four ladder-G colours, the one it returns for the same settings with
\* ladder B cleared: ladder B has no influence.
C8_GBeforeB ==
    (Rendered /\ IsSet(cSettings.g_cutoff_1) /\ IsSet(cSettings.b_cutoff_1))
        => /\ cColor[1] \in {ColorOr(cSettings.g_color_1, "green"), ColorOr(cSettings.g_color_2, "yellow"),
                             ColorOr(cSettings.g_color_3, "orange"), ColorOr(cSettings.g_color_4, "red")}
           /\ cColor[1] = getColor(cCount, WithoutB(cSettings))

\* C9: when neither g_cutoff_1 nor b_cutoff_1 is set, getColor returns
\* "white" for every count, whatever the other cutoffs and colours are.
C9_NeitherIsWhite ==
    (Rendered /\ ~IsSet(cSettings.g_cutoff_1) /\ ~IsSet(cSettings.b_cutoff_1))
        => cColor[1] = "white"

\* getColor has returned for a count above the second cutoffs of both
\* ladders, configured with colours, while both first cutoffs are unset.
C9_Witness ==
    /\ Rendered
    /\ ~IsSet(cSettings.g_cutoff_1) /\ ~IsSet(cSettings.b_cutoff_1)
    /\ cSettings.g_cutoff_2 = <<5>> /\ cSettings.b_cutoff_2 = <<5>>
    /\ cSettings.g_color_2 = <<"g2">> /\ cSettings.b_color_2 = <<"b2">>
    /\ cCount = 7
    /\ cColor = <<"white">>

----------------------------------------------------------------------------
\* Properties of the timer under the scheduling of LiveSpec

\* A refresh of instance i has just failed: the host dropped the request, or
\* the run rejected.
RefreshFailed(i) == lastOp.id = i /\ lastOp.op \in {"drop", "rejected"}

-----------------------------------------------------------------------------
\* Properties of the refresh pipeline

\* The runs in flight as updateButton holds them: instance and settings.
Core(s) == [j \in DOMAIN s |-> [id |-> s[j].id, settings |-> s[j].settings]]

\* The remote call answered with a task list: getTasks resolves.
FetchOk(resp) == resp.transport /\ resp.ok /\ resp.json

\* The step being taken is handler op of instance i.
Runs(op, i) == lastOp'.op = op /\ lastOp'.id = i

\* The step being taken ends run k of instance i.
Ends(k, i) ==
    /\ k \in 1..Len(runs)
    /\ runs[k].id = i
    /\ Core(runs') = RemoveAt(Core(runs), k)

\* C11: every refresh signal runs the pipeline once: a timer tick, a key
\* press and an appearance with a non-empty filter each issue one getSettings
\* request for their instance; each delivered notification and each settings
\* change starts exactly one run of updateButton with the delivered settings;
\* and a run whose fetch succeeds ends in setImage for its instance with the
\* image rendered from the fetched count and the settings of that run.
C11_PipelineOnEverySignal ==
    [][\A i \in Ids :
        /\ (Runs("tick", i) \/ Runs("keyDown", i)
                \/ (Runs("appear", i) /\ settings[i].item_filter # ""))
            => pending' = [pending EXCEPT ![i] = @ + 1]
        /\ Runs("deliver", i)
            => /\ pending' = [pending EXCEPT ![i] = @ - 1]
               /\ Core(runs') = Append(Core(runs), [id |-> i, settings |-> settings[i]])
        /\ Runs("settingsChanged", i)
            => Core(runs') = Append(Core(runs), [id |-> i, settings |-> settings'[i]])
        /\ (Runs("setImage", i) \/ Runs("rejected", i))
            => \E k \in 1..Len(runs) :
                /\ Ends(k, i)
                /\ FetchOk(lastOp'.resp)
                    => /\ lastOp'.op = "setImage"
                       /\ image' = [image EXCEPT ![i] =
                            <<getButtonSvg(lastOp'.resp.tasks, runs[k].settings)>>]]_vars

\* A run of a visible instance has just set the image of the instance from a
\* fetched count of one task and the settings delivered to it.
C11_Witness ==
    /\ lastOp.op = "setImage"
    /\ lastOp.resp.tasks = 1
    /\ has(lastOp.id)
    /\ shown[lastOp.id] = <<[count |-> 1, settings |-> settings[lastOp.id]]>>
    /\ image[lastOp.id] = <<getButtonSvg(1, settings[lastOp.id])>>

C14_NoAutomaticRetry ==
    [][/\ \A i \in Ids :
            Runs("rejected", i)
                => /\ \E k \in 1..Len(runs) : Ends(k, i)
                   /\ Len(runs') = Len(runs) - 1
                   /\ pending' = pending
       /\ Len(runs') > Len(runs)
            => /\ lastOp'.op \in {"deliver", "settingsChanged"}
               /\ Len(runs') = Len(runs) + 1
       /\ Sum(pending', Ids) > Sum(pending, Ids)
            => lastOp'.op \in {"tick", "keyDown", "appear"}]_vars

\* A run of an instance has just failed and nothing is left in flight for
\* any instance: no request, no run.
C14_Witness ==
    /\ lastOp.op = "rejected"
    /\ has(lastOp.id)
    /\ runs = << >>
    /\ \A i \in Ids : pending[i] = 0

C16_InstancesIndependent ==
    [][\A i \in Ids :
        lastOp'.id = i
            => \A j \in Ids \ {i} :
                /\ {h \in DOMAIN timers' : timers'[h] = j} = TimersOf(j)
                /\ (j \in DOMAIN intervals') <=> has(j)
                /\ has(j) => intervals'[j] = intervals[j]
                /\ image'[j] = image[j]]_vars

\* Instance a has just disappeared, having had a timer, while instance b
\* keeps its timer and shows its image.
C16_Witness ==
    /\ Ran("disappear", "a")
    /\ lastOp.had
    /\ has("b")
    /\ TimersOf("b") = {intervals["b"]}
    /\ image["b"] # Null

\* C17: an empty item_filter is passed through to the remote service: a
\* notification or a settings change whose settings have an empty item_filter
\* still starts a run that makes the remote call; the run can settle on every
\* outcome of the call; it sets the image when the call succeeds, and it
\* rejects only when the call failed.
C17_EmptyFilterPassesThrough ==
    /\ [](\A k \in 1..Len(runs) :
            runs[k].settings.item_filter = ""
                => \A resp \in Responses : ENABLED FetchResolved(k, resp))
    /\ [][\A i \in Ids :
            /\ (Runs("deliver", i) /\ settings[i].item_filter = "")
                => Core(runs') = Append(Core(runs), [id |-> i, settings |-> settings[i]])
            /\ (Runs("settingsChanged", i) /\ settings'[i].item_filter = "")
                => Core(runs') = Append(Core(runs), [id |-> i, settings |-> settings'[i]])
            /\ (Runs("setImage", i) \/ Runs("rejected", i))
                => \E k \in 1..Len(runs) :
                    /\ Ends(k, i)
                    /\ runs[k].settings.item_filter = ""
                        => /\ Runs("rejected", i) <=> ~FetchOk(lastOp'.resp)
                           /\ Runs("setImage", i) => image'[i] # Null]_vars

\* A run whose settings have an empty item_filter has just set the image of
\* its instance.
C17_Witness ==
    /\ lastOp.op = "setImage"
    /\ FetchOk(lastOp.resp)
    /\ shown[lastOp.id] # Null
    /\ shown[lastOp.id][1].settings.item_filter = ""
    /\ image[lastOp.id] = <<getButtonSvg(lastOp.resp.tasks, shown[lastOp.id][1].settings)>>

\* C18: a later trigger's result is not overwritten by an earlier trigger:
\* when a run of an instance succeeds after a run of the same instance that
\* was started later has already set the image, the image on display stays
\* the one of the later run.
C18_LaterRunWins ==
    [][\A i \in Ids :
        Runs("setImage", i)
            => \A k \in 1..Len(runs) :
                (runs[k].id = i /\ runs[k].stale /\ runs' = RemoveAt(MarkStale(runs, k), k))
                    => image'[i] = image[i]]_vars

\* C19: every run works on the settings delivered with the notification that
\* started it, which are the settings of the instance at that moment and not
\* those it appeared with: the timer callback only issues a request and
\* starts no run and sets no image itself, a delivered notification starts
\* its run with the current settings of the instance, and the image a run
\* sets is rendered from the settings the run was started with.
C19_DeliveredSettingsUsed ==
    [][\A i \in Ids :
        /\ Runs("tick", i) => UNCHANGED <<runs, image, shown, settings>>
        /\ Runs("deliver", i)
            => /\ Len(runs') = Len(runs) + 1
               /\ runs'[Len(runs')].id = i
               /\ runs'[Len(runs')].settings = settings[i]
               /\ settings' = settings
        /\ Runs("setImage", i)
            => \E k \in 1..Len(runs) :
                /\ Ends(k, i)
                /\ \E n \in 0..MaxTasks :
                    image'[i] = <<getButtonSvg(n, runs[k].settings)>>]_vars

\* After the settings of a visible instance were changed, a notification
\* requested later has just started a run with the changed settings, while
\* the button still shows an image rendered from the settings before the
\* change.
C19_Witness ==
    /\ lastOp.op = "deliver"
    /\ has(lastOp.id)
    /\ Len(runs) = 1
    /\ runs[1].id = lastOp.id
    /\ runs[1].settings = settings[lastOp.id]
    /\ shown[lastOp.id] # Null
    /\ shown[lastOp.id][1].settings # settings[lastOp.id]

====
